---- MODULE Spec2Model ----
(***************************************************************************)
(* The documentation assistant of streamlit_ui.py: main() takes a chat     *)
(* input, process_query() runs the pipeline                                *)
(*     embedding RPC -> retrieval RPC -> context assembly -> chat RPC      *)
(* and main() records the reply in the session's message history.          *)
(* Streamlit runs the whole script again for every chat input, and ends a  *)
(* run at its next st.* call when the user has meanwhile asked for a stop  *)
(* or typed again.                                                         *)
(*                                                                         *)
(* A session is one Streamlit script run context; every local variable of  *)
(* the coroutines lives in the frame of the session that called them, so   *)
(* the state is a family of per-session values indexed by session id.      *)
(* The three external services are the environment: each pending call is   *)
(* answered by an action that draws the service's outcome (a failure with  *)
(* a message, or a response) from a small set.                             *)
(*                                                                         *)
(* Before main, the script loads and validates the process environment     *)
(* and builds its clients (SpecStartup); the module secure_keys reads the  *)
(* same environment (SpecKeys).                                            *)
(***************************************************************************)
EXTENDS Integers, Sequences, FiniteSets, TLC

VARIABLES pc, query, results, context, answer, exc, trace, messages,
          request, env, secureKeysLoaded, lastCall

vars == <<pc, query, results, context, answer, exc, trace, messages,
          request, env, secureKeysLoaded, lastCall>>

\* os.environ, and the state of the module secure_keys
kvars == <<env, secureKeysLoaded, lastCall>>

(***************************************************************************)
(* Bounds of the model.                                                    *)
(***************************************************************************)
NumSessions == 2    \* sessions (script runs) that may be in flight together
MaxDocs == 2        \* longest record list the retrieval RPC returns
MaxTurns == 2       \* user messages recorded by one session

(***************************************************************************)
(* Program constants.                                                      *)
(***************************************************************************)
EMBEDDING_DIM == 1536
MATCH_COUNT == 5
EMBEDDING_MODEL == "text-embedding-3-small"
RPC_NAME == "match_site_pages"
SOURCE_FILTER == [source |-> "ultravox_docs"]
LLM_MODEL == "gpt-4o-mini"
SYSTEM_PROMPT == "You are a helpful AI assistant that answers questions about Ultravox documentation. Use the provided context to answer questions accurately and concisely."
NOT_FOUND == "I couldn't find any relevant information in the documentation."
INDEX_ERROR == "list index out of range"

Sessions == 1..NumSessions

(***************************************************************************)
(* Inputs: what the user types and what the services answer.               *)
(***************************************************************************)
Queries == {"How do I start a call?", "What is a stage?"}

(***************************************************************************)
(* A vector (a Python list of numbers) is written run by run: a sequence   *)
(* of runs [value, count], each standing for count equal consecutive       *)
(* elements, consecutive runs differing in value.                          *)
(***************************************************************************)
\* the list [x] * n
Repeat(x, n) == IF n <= 0 THEN <<>> ELSE <<[value |-> x, count |-> n]>>

\* len(v)
RECURSIVE Dim(_)
Dim(v) == IF v = <<>> THEN 0 ELSE v[1].count + Dim(Tail(v))

\* all(x == 0 for x in v)
AllZero(v) == \A i \in 1..Len(v) : v[i].value = 0

ZeroVector == Repeat(0, EMBEDDING_DIM)
UnitVector == Repeat(1, 1) \o Repeat(0, EMBEDDING_DIM - 1)

Failure(m) == [ok |-> FALSE, msg |-> m]

\* embeddings.create: raises, or returns response.data (a list of embeddings)
EmbeddingOutcomes ==
    {Failure("connection error")}
        \cup {[ok |-> TRUE, data |-> d] : d \in {<<>>, <<UnitVector>>}}

\* Records of the store: dicts, here with the keys the store chose to send.
DocA == [title |-> "A", content |-> "x"]
DocB == [title |-> "B", content |-> "y"]
DocNoContent == [title |-> "C"]
Docs == {DocA, DocB, DocNoContent}

SeqsUpTo(S, n) == UNION {[1..k -> S] : k \in 0..n}

\* rpc(...).execute(): raises, or returns response.data (a list of records)
RetrievalOutcomes ==
    {Failure("store unavailable")}
        \cup {[ok |-> TRUE, data |-> d] : d \in SeqsUpTo(Docs, MaxDocs)}

\* chat.completions.create: raises, or returns response.choices, given here
\* by each choice's message.content
ChatOutcomes ==
    {Failure(m) : m \in {"rate limited", ""}}
        \cup {[ok |-> TRUE, choices |-> c] :
                c \in {<<>>, <<"Use the REST API.">>, <<"">>,
                       <<"Use the REST API.", "See the docs.">>}}

\* The smaller inputs of the specification with several sessions in flight.
ConcRetrievalOutcomes ==
    {Failure("store unavailable")}
        \cup {[ok |-> TRUE, data |-> d] :
                d \in {<<>>, <<DocA>>, <<DocB, DocA>>, <<DocNoContent>>}}

ConcEmbeddingOutcomes ==
    {Failure("connection error"), [ok |-> TRUE, data |-> <<UnitVector>>]}

ConcChatOutcomes ==
    {Failure("rate limited"), [ok |-> TRUE, choices |-> <<"Use the REST API.">>]}

(***************************************************************************)
(* The trace of a query: the calls it issued and the outcomes it got, in   *)
(* order.  A history variable; the program does not read it.               *)
(***************************************************************************)
CallEv(rpc, req) == [kind |-> "call", rpc |-> rpc, req |-> req]
ReturnEv(rpc, out) == [kind |-> "return", rpc |-> rpc, out |-> out]

(***************************************************************************)
(* The pure parts of the coroutines.                                       *)
(***************************************************************************)
\* get_embedding: the request it sends
EmbeddingRequest(text) == [model |-> EMBEDDING_MODEL, input |-> text]

\* (a changed get_embedding: the fallback is an empty list)
GetEmbeddingResultEmpty(out) ==
    IF out.ok /\ Len(out.data) > 0 THEN out.data[1] ELSE <<>>

\* get_embedding: response.data[0].embedding, or the zero vector on any
\* exception (the call's own, or the IndexError of an empty data list)
GetEmbeddingResult(out) ==
    IF out.ok /\ Len(out.data) > 0 THEN out.data[1] ELSE ZeroVector

\* (a changed search_docs: the match count is written into the request)
RetrievalRequestTen(query_embedding, match_count) ==
    [fn |-> RPC_NAME,
     query_embedding |-> query_embedding,
     match_count |-> 10,
     filter |-> SOURCE_FILTER]

\* search_docs: the parameters of the retrieval RPC
RetrievalRequest(query_embedding, match_count) ==
    [fn |-> RPC_NAME,
     query_embedding |-> query_embedding,
     match_count |-> match_count,
     filter |-> SOURCE_FILTER]

\* (a changed search_docs: a failure is reported as a record)
SearchDocsErrorRecord(out) ==
    IF out.ok THEN out.data ELSE <<[title |-> "Error", content |-> out.msg]>>

\* search_docs: response.data, or [] on any exception
SearchDocsResult(out) == IF out.ok THEN out.data ELSE <<>>

\* (a changed process_query: the check for no results is missing)
NeverEmpty(res) == FALSE

\* process_query: "not results"
IsEmpty(res) == Len(res) = 0

\* str.join
RECURSIVE Join(_, _)
Join(sep, strs) ==
    IF Len(strs) = 0 THEN ""
    ELSE IF Len(strs) = 1 THEN strs[1]
    ELSE strs[1] \o sep \o Join(sep, Tail(strs))

\* A dict lookup result['k'] raises KeyError when the key is absent.
HasKeys(doc) == {"title", "content"} \subseteq DOMAIN doc

\* process_query: the f-string of one record
Block(doc) == "Title: " \o doc.title \o "\nContent: " \o doc.content

\* (a changed process_query: the records are taken last first)
BuildContextReversed(docs) ==
    Join("\n\n", [i \in 1..Len(docs) |-> Block(docs[Len(docs) + 1 - i])])

\* process_query: the context of the retrieved records
BuildContext(docs) == Join("\n\n", [i \in 1..Len(docs) |-> Block(docs[i])])

\* The first key whose lookup fails while the context is built.
FirstMissingKey(docs) ==
    LET i == CHOOSE k \in 1..Len(docs) :
                 /\ ~HasKeys(docs[k])
                 /\ \A j \in 1..(k - 1) : HasKeys(docs[j])
    IN IF "title" \notin DOMAIN docs[i] THEN "title" ELSE "content"

\* os.getenv("LLM_MODEL", "gpt-4o-mini"): the default stands in only for a
\* name that is unset
LlmModel(e) == IF "LLM_MODEL" \in DOMAIN e THEN e["LLM_MODEL"] ELSE LLM_MODEL

\* (a changed get_ai_response: the template's arguments are exchanged)
ChatRequestSwapped(q, ctx) ==
    [model |-> LlmModel(env),
     messages |-> << [role |-> "system", content |-> SYSTEM_PROMPT],
                     [role |-> "user",
                      content |-> "Context:\n" \o q \o "\n\nQuestion: " \o ctx] >>]

\* get_ai_response: the request it sends
ChatRequest(q, ctx) ==
    [model |-> LlmModel(env),
     messages |-> << [role |-> "system", content |-> SYSTEM_PROMPT],
                     [role |-> "user",
                      content |-> "Context:\n" \o ctx \o "\n\nQuestion: " \o q] >>]

\* (a changed get_ai_response: the error string drops the message)
GetAiResponseNoMessage(out) ==
    IF ~out.ok THEN "Error: "
    ELSE IF Len(out.choices) = 0 THEN "Error: " \o INDEX_ERROR
    ELSE out.choices[1]

\* (a changed get_ai_response: the completion is wrapped in a label)
GetAiResponseLabelled(out) ==
    IF ~out.ok THEN "Error: " \o out.msg
    ELSE IF Len(out.choices) = 0 THEN "Error: " \o INDEX_ERROR
    ELSE "Answer: " \o out.choices[1]

\* get_ai_response: response.choices[0].message.content, or "Error: " and
\* str(e) on any exception (the call's own, or the IndexError of an empty
\* choices list)
GetAiResponseResult(out) ==
    IF ~out.ok THEN "Error: " \o out.msg
    ELSE IF Len(out.choices) = 0 THEN "Error: " \o INDEX_ERROR
    ELSE out.choices[1]

\* (a changed binding: the variable is a module-level global, one for all
\* sessions)
Global(f, s, v) == [t \in DOMAIN f |-> v]

\* Assignment to a local variable of the coroutine frame of session s.
Local(f, s, v) == [f EXCEPT ![s] = v]

\* st.session_state.messages.append, on the session's own state
AppendMessage(s, role, content) ==
    [messages EXCEPT ![s] = Append(@, [role |-> role, content |-> content])]

\* The history of session s grows by the events evs.
Logged(s, evs) == [trace EXCEPT ![s] = @ \o evs]

UserTurns(s) ==
    Len(SelectSeq(messages[s], LAMBDA m : m.role = "user"))

(***************************************************************************)
(* The process environment: a map from the names that are set to their     *)
(* values; a name that is unset is not in its domain.                      *)
(***************************************************************************)
\* An environment with which the script starts.
GoodEnv ==
    [OPENAI_API_KEY |-> "sk-test",
     SUPABASE_URL |-> "https://db.supabase.co",
     SUPABASE_SERVICE_KEY |-> "service-key"]

\* No function of secure_keys has been called.
NoCall == [fn |-> "none"]

\* What the user has asked of a script run that is under way: nothing, a
\* stop, or a rerun with a new chat input.
NoRequest == [kind |-> "none"]
StopRequest == [kind |-> "stop"]
RerunRequest(q) == [kind |-> "rerun", query |-> q]

\* A run that has ended: a stop is served by its end, a rerun stays asked.
AfterRun(r) == IF r.kind = "rerun" THEN r ELSE NoRequest

\* Where a stop is asked of a run of the script before process_query is
\* called; the run ends there if it reaches that st.* call, and goes on as
\* if nothing was asked if it does not.  Nowhere; at the st.error that
\* shows why the start failed (lines 16, 24, 40); at the st.error that
\* follows it after an initialization error (line 41); at an st.* call up
\* to st.chat_input, which then has not returned (lines 109, 110, 118, 119,
\* 122); at an st.* call between the input and the recording of the user
\* message (lines 124, 125); or at st.chat_message("assistant") after it
\* (line 129).
Cuts ==
    {"none", "at_error", "at_hint", "before_input", "before_append",
     "before_call"}

\* The states in which process_query waits for an external call.
InFlight == {"Embedding", "Retrieving", "Generating"}

\* The values a name may have when the process starts: unset (the empty
\* sequence) or set to a string.
OpenaiKeyValues == {<<>>, <<"">>, <<"sk-test">>}
SupabaseUrlValues ==
    {<<>>, <<"">>, <<"https://db.supabase.co">>, <<"http://localhost:54321">>,
     <<"db.supabase.co">>, <<"htt">>}
ServiceKeyValues == {<<>>, <<"">>, <<"service-key">>}
LlmModelValues == {<<>>, <<"">>, <<"gpt-4">>}

EnvOf(key, url, svc, llm) ==
    LET given == [OPENAI_API_KEY |-> key,
                  SUPABASE_URL |-> url,
                  SUPABASE_SERVICE_KEY |-> svc,
                  LLM_MODEL |-> llm]
    IN [n \in {m \in DOMAIN given : given[m] # <<>>} |-> given[n][1]]

Envs ==
    {EnvOf(k, u, v, m) :
        k \in OpenaiKeyValues, u \in SupabaseUrlValues, v \in ServiceKeyValues,
        m \in LlmModelValues}

\* A .env file that load_dotenv() reads, with the names it gives, and one
\* that it cannot read (bytes that are not UTF-8: UnicodeDecodeError).
Dotenv(given) == [readable |-> TRUE, vars |-> given]
UnreadableDotenv ==
    [readable |-> FALSE,
     error |-> "'utf-8' codec can't decode byte 0xff in position 15: invalid start byte"]

\* The .env file: empty, one that gives the OpenAI key, or unreadable.
DotenvFiles ==
    {Dotenv(EnvOf(<<>>, <<>>, <<>>, <<>>)),
     Dotenv(EnvOf(<<"sk-from-dotenv">>, <<>>, <<>>, <<>>)),
     UnreadableDotenv}

\* load_dotenv(): a name of the file is set unless the environment has it;
\* a file that cannot be read sets nothing (load_dotenv raises)
LoadDotenv(e, file) ==
    IF ~file.readable THEN e
    ELSE [n \in DOMAIN e \cup DOMAIN file.vars |->
             IF n \in DOMAIN e THEN e[n] ELSE file.vars[n]]

\* "not os.getenv(name)": the name is unset (None) or set to ""
Falsy(e, name) == name \notin DOMAIN e \/ e[name] = ""

\* validate_env_vars: required_vars
REQUIRED_VARS == <<"OPENAI_API_KEY", "SUPABASE_URL", "SUPABASE_SERVICE_KEY">>

\* (a changed validate_env_vars: only unset names count as missing)
MissingVarsUnsetOnly(e) ==
    SelectSeq(REQUIRED_VARS, LAMBDA v : v \notin DOMAIN e)

\* validate_env_vars: missing_vars
MissingVars(e) == SelectSeq(REQUIRED_VARS, LAMBDA v : Falsy(e, v))

\* str.startswith
StartsWith(str, prefix) ==
    Len(str) >= Len(prefix) /\ SubSeq(str, 1, Len(prefix)) = prefix

\* os.getenv("SUPABASE_URL", "")
SupabaseUrl(e) == IF "SUPABASE_URL" \in DOMAIN e THEN e["SUPABASE_URL"] ELSE ""

\* supabase_url.startswith(("https://", "http://"))
UrlOk(e) ==
    StartsWith(SupabaseUrl(e), "https://") \/ StartsWith(SupabaseUrl(e), "http://")

\* How a call ends.
Return(v) == [raised |-> FALSE, value |-> v]
Raise(type, m) == [raised |-> TRUE, exc |-> type, msg |-> m]

\* (a changed get_openai_api_key: only a missing key is refused)
GetOpenaiApiKeyNoneOnly(e) ==
    IF "OPENAI_API_KEY" \notin DOMAIN e
    THEN Raise("ValueError", "OpenAI API key not found in environment variables")
    ELSE Return(e["OPENAI_API_KEY"])

\* get_openai_api_key
GetOpenaiApiKeyResult(e) ==
    IF Falsy(e, "OPENAI_API_KEY")
    THEN Raise("ValueError", "OpenAI API key not found in environment variables")
    ELSE Return(e["OPENAI_API_KEY"])

(***************************************************************************)
(* Initial state: every session's script has started, its history is       *)
(* empty and no query is in flight.                                        *)
(***************************************************************************)
Init ==
    /\ pc = [s \in Sessions |-> "Idle"]
    /\ query = [s \in Sessions |-> ""]
    /\ results = [s \in Sessions |-> <<>>]
    /\ context = [s \in Sessions |-> ""]
    /\ answer = [s \in Sessions |-> ""]
    /\ exc = [s \in Sessions |-> ""]
    /\ trace = [s \in Sessions |-> <<>>]
    /\ messages = [s \in Sessions |-> <<>>]
    /\ request = [s \in Sessions |-> NoRequest]
    /\ env = GoodEnv
    /\ secureKeysLoaded = FALSE
    /\ lastCall = NoCall

(***************************************************************************)
(* Lines 20-42, which every run of the script executes before main: the    *)
(* error with which the run stops (st.error, st.stop()), "" when main is   *)
(* reached.  e is the environment after load_dotenv() of file; created     *)
(* tells whether the clients' constructors returned.                       *)
(***************************************************************************)
StartupError(e, file, created) ==
    IF ~file.readable
    THEN "Error loading environment variables: " \o file.error
    ELSE IF MissingVars(e) # <<>>
    THEN "Missing environment variables: " \o Join(", ", MissingVars(e))
    ELSE IF ~UrlOk(e)
    THEN "Initialization Error: Invalid Supabase URL. Must start with https:// or http://"
    ELSE IF ~created
    THEN "Initialization Error: client"
    ELSE ""

(***************************************************************************)
(* How a start that fails with the error err ends.  The error is shown by  *)
(* st.error and the run stops at st.stop(); an initialization error is     *)
(* followed by a second st.error (line 41).  A stop asked at one of these  *)
(* st.error calls ends the run there, before the error is shown.           *)
(***************************************************************************)
FailedStart(err, cut) ==
    IF cut = "at_error"
    THEN [pc |-> "Ended", exc |-> ""]
    ELSE IF cut = "at_hint" /\ StartsWith(err, "Initialization Error: ")
    THEN [pc |-> "Ended", exc |-> err]
    ELSE [pc |-> "Stopped", exc |-> err]

(***************************************************************************)
(* One run of the script for the chat input q, up to its first await.      *)
(* Lines 20-42 run again; then main records the user message, and          *)
(* process_query -> search_docs -> get_embedding issue the embedding RPC.  *)
(* A run that is cut ends at the st.* call named by cut.                   *)
(***************************************************************************)
RunScript(s, q, file, created, cut) ==
    /\ env' = LoadDotenv(env, file)
    /\ results' = Local(results, s, <<>>)
    /\ context' = Local(context, s, "")
    /\ answer' = Local(answer, s, "")
    /\ request' = Local(request, s, NoRequest)
    /\ IF StartupError(env', file, created) # ""
       THEN /\ exc' = Local(exc, s,
                        FailedStart(StartupError(env', file, created), cut).exc)
            /\ pc' = Local(pc, s,
                       FailedStart(StartupError(env', file, created), cut).pc)
            /\ query' = Local(query, s, "")
            /\ trace' = [trace EXCEPT ![s] = <<>>]
            /\ UNCHANGED messages
       ELSE /\ exc' = Local(exc, s, "")
            /\ query' = Local(query, s, IF cut = "before_input" THEN "" ELSE q)
            /\ IF cut \in {"before_input", "before_append"}
               THEN /\ trace' = [trace EXCEPT ![s] = <<>>]
                    /\ pc' = Local(pc, s, "Ended")
                    /\ UNCHANGED messages
               ELSE IF cut = "before_call"
               THEN /\ messages' = AppendMessage(s, "user", q)
                    /\ trace' = [trace EXCEPT ![s] = <<>>]
                    /\ pc' = Local(pc, s, "Ended")
               ELSE /\ messages' = AppendMessage(s, "user", q)
                    /\ trace' = [trace EXCEPT ![s] =
                                    <<CallEv("embedding", EmbeddingRequest(q))>>]
                    /\ pc' = Local(pc, s, "Embedding")
    /\ UNCHANGED <<secureKeysLoaded, lastCall>>

(***************************************************************************)
(* main: the user types the chat input q.  With no run under way the       *)
(* script runs for it at once.  While process_query waits for a call, the  *)
(* input is held as a rerun request (the latest one counts): the run under *)
(* way goes on to its next st.* call, and the script runs for q after it   *)
(* has ended.                                                              *)
(***************************************************************************)
ChatInput(s, q, file, created, cut) ==
    /\ pc[s] \in {"Idle", "Done", "Raised", "Ended"} \cup InFlight
    /\ UserTurns(s) < MaxTurns
    /\ q # ""
    /\ IF pc[s] \in InFlight
       THEN /\ request' = Local(request, s, RerunRequest(q))
            /\ UNCHANGED <<pc, query, results, context, answer, exc, trace,
                           messages>>
            /\ UNCHANGED kvars
       ELSE RunScript(s, q, file, created, cut)

(***************************************************************************)
(* The run under way has ended and a rerun was asked for: the script runs  *)
(* for the chat input that was typed meanwhile.                            *)
(***************************************************************************)
Rerun(s, file, created, cut) ==
    /\ pc[s] \in {"Raised", "Ended"}
    /\ request[s].kind = "rerun"
    /\ RunScript(s, request[s].query, file, created, cut)

(***************************************************************************)
(* The user presses Stop while process_query waits for a call; the stop    *)
(* takes the place of a rerun asked before it.                             *)
(***************************************************************************)
PressStop(s) ==
    /\ pc[s] \in InFlight
    /\ request' = Local(request, s, StopRequest)
    /\ UNCHANGED <<pc, query, results, context, answer, exc, trace, messages>>
    /\ UNCHANGED kvars

(***************************************************************************)
(* main, lines 131-132, after process_query has returned response:         *)
(* st.markdown(response) is the first st.* call since the input, so a run  *)
(* of which a stop or a rerun has been asked ends there and records no     *)
(* reply; otherwise the assistant message is appended.                     *)
(***************************************************************************)
ShowReply(s, response) ==
    IF request[s] = NoRequest
    THEN /\ messages' = AppendMessage(s, "assistant", response)
         /\ pc' = Local(pc, s, "Done")
         /\ UNCHANGED request
    ELSE /\ pc' = Local(pc, s, "Ended")
         /\ request' = Local(request, s, AfterRun(request[s]))
         /\ UNCHANGED messages

(***************************************************************************)
(* (A changed get_embedding: a failed embedding call is tried once more.)  *)
(***************************************************************************)
EmbeddingRespondsRetry(s, out) ==
    /\ pc[s] = "Embedding"
    /\ IF ~out.ok /\ Len(trace[s]) = 1
       THEN /\ trace' = Logged(s, << ReturnEv("embedding", out),
                                     CallEv("embedding",
                                            EmbeddingRequest(query[s])) >>)
            /\ UNCHANGED pc
       ELSE /\ trace' = Logged(s, << ReturnEv("embedding", out),
                                     CallEv("retrieval",
                                            RetrievalRequest(
                                                GetEmbeddingResult(out),
                                                MATCH_COUNT)) >>)
            /\ pc' = Local(pc, s, "Retrieving")
    /\ UNCHANGED <<query, results, context, answer, exc, messages, request>>
    /\ UNCHANGED kvars

(***************************************************************************)
(* The embedding RPC returns or fails.  get_embedding returns the vector   *)
(* (or the zero vector) and search_docs issues the retrieval RPC with it.  *)
(***************************************************************************)
EmbeddingResponds(s, out) ==
    /\ pc[s] = "Embedding"
    /\ LET query_embedding == GetEmbeddingResult(out)
       IN trace' = Logged(s, << ReturnEv("embedding", out),
                                CallEv("retrieval",
                                       RetrievalRequest(query_embedding,
                                                        MATCH_COUNT)) >>)
    /\ pc' = Local(pc, s, "Retrieving")
    /\ UNCHANGED <<query, results, context, answer, exc, messages, request>>
    /\ UNCHANGED kvars

(***************************************************************************)
(* The retrieval RPC returns or fails.  search_docs returns the records    *)
(* (or []); process_query answers NOT_FOUND for none, and otherwise builds *)
(* the context (a KeyError of a record leaves process_query and ends the   *)
(* script run) and get_ai_response issues the chat RPC.  On NOT_FOUND main *)
(* goes on to show and record the reply.                                   *)
(***************************************************************************)
RetrievalResponds(s, out) ==
    /\ pc[s] = "Retrieving"
    /\ LET res == SearchDocsResult(out)
           ret == ReturnEv("retrieval", out)
       IN /\ results' = Local(results, s, res)
          /\ IF IsEmpty(res)
             THEN /\ answer' = Local(answer, s, NOT_FOUND)
                  /\ ShowReply(s, NOT_FOUND)
                  /\ trace' = Logged(s, <<ret>>)
                  /\ UNCHANGED <<context, exc>>
             ELSE IF \A i \in 1..Len(res) : HasKeys(res[i])
             THEN /\ context' = Local(context, s, BuildContext(res))
                  /\ trace' = Logged(s, << ret,
                                            CallEv("chat",
                                                   ChatRequest(query[s],
                                                               BuildContext(res))) >>)
                  /\ pc' = Local(pc, s, "Generating")
                  /\ UNCHANGED <<answer, exc, messages, request>>
             ELSE /\ exc' = Local(exc, s,
                              "KeyError: '" \o FirstMissingKey(res) \o "'")
                  /\ trace' = Logged(s, <<ret>>)
                  /\ pc' = Local(pc, s, "Raised")
                  /\ request' = Local(request, s, AfterRun(request[s]))
                  /\ UNCHANGED <<context, answer, messages>>
    /\ UNCHANGED query
    /\ UNCHANGED kvars

(***************************************************************************)
(* The chat RPC returns or fails.  get_ai_response returns the first       *)
(* choice's content (or the error string), process_query returns it and    *)
(* main goes on to show and record the reply.                              *)
(***************************************************************************)
GenerationResponds(s, out) ==
    /\ pc[s] = "Generating"
    /\ LET response == GetAiResponseResult(out)
       IN /\ answer' = Local(answer, s, response)
          /\ ShowReply(s, response)
    /\ trace' = Logged(s, <<ReturnEv("chat", out)>>)
    /\ UNCHANGED <<query, results, context, exc>>
    /\ UNCHANGED kvars

(***************************************************************************)
(* Spec: one session recording up to MaxTurns chat inputs.                 *)
(***************************************************************************)
Next ==
    \/ \E q \in Queries, file \in DotenvFiles, created \in BOOLEAN, cut \in Cuts :
           ChatInput(1, q, file, created, cut)
    \/ \E file \in DotenvFiles, created \in BOOLEAN, cut \in Cuts :
           Rerun(1, file, created, cut)
    \/ PressStop(1)
    \/ \E out \in EmbeddingOutcomes : EmbeddingResponds(1, out)
    \/ \E out \in RetrievalOutcomes : RetrievalResponds(1, out)
    \/ \E out \in ChatOutcomes : GenerationResponds(1, out)

Spec == Init /\ [][Next]_vars

(***************************************************************************)
(* SpecConc: every session handles one chat input, which reaches           *)
(* process_query, and the sessions' steps interleave freely.               *)
(***************************************************************************)
NextConc ==
    \E s \in Sessions :
        \/ \E q \in Queries, file \in DotenvFiles :
               /\ messages[s] = <<>>
               /\ ChatInput(s, q, file, TRUE, "none")
        \/ PressStop(s)
        \/ \E out \in ConcEmbeddingOutcomes : EmbeddingResponds(s, out)
        \/ \E out \in ConcRetrievalOutcomes : RetrievalResponds(s, out)
        \/ \E out \in ConcChatOutcomes : GenerationResponds(s, out)

SpecConc == Init /\ [][NextConc]_vars

(***************************************************************************)
(* validate_api_key takes any Python value, written here as its type and   *)
(* its text.                                                               *)
(***************************************************************************)
MIN_KEY_LEN == 40
KEY_PREFIX == "sk-"

PyStr(text) == [type |-> "str", val |-> text]
PyOther(type, text) == [type |-> type, val |-> text]

\* the string "a" * n
RECURSIVE Chars(_)
Chars(n) == IF n <= 0 THEN "" ELSE "a" \o Chars(n - 1)

KeyArgs ==
    {PyStr(KEY_PREFIX \o Chars(MIN_KEY_LEN - 3)),
     PyStr(KEY_PREFIX \o Chars(MIN_KEY_LEN - 2)),
     PyStr(KEY_PREFIX \o Chars(MIN_KEY_LEN + 20)),
     PyStr("pk-" \o Chars(MIN_KEY_LEN - 2)),
     PyStr("SK-" \o Chars(MIN_KEY_LEN - 2)),
     PyStr(" " \o KEY_PREFIX \o Chars(MIN_KEY_LEN)),
     PyStr(Chars(MIN_KEY_LEN + 1)),
     PyStr(KEY_PREFIX), PyStr("sk"), PyStr(""),
     PyOther("NoneType", "None"),
     PyOther("int", "41"),
     PyOther("bytes", KEY_PREFIX \o Chars(MIN_KEY_LEN - 2)),
     PyOther("list", "['sk-']")}

\* (a changed validate_api_key: a key of the minimum length is accepted)
ValidateApiKeyAtLeast(key) ==
    /\ key.type = "str"
    /\ StartsWith(key.val, KEY_PREFIX)
    /\ Len(key.val) >= MIN_KEY_LEN

\* validate_api_key
ValidateApiKeyResult(key) ==
    /\ key.type = "str"
    /\ StartsWith(key.val, KEY_PREFIX)
    /\ Len(key.val) > MIN_KEY_LEN

(***************************************************************************)
(* The script's start, before main: the environment is loaded (a .env      *)
(* that cannot be read stops the run, lines 23-25) and validated           *)
(* (st.stop() ends the script run), then the URL is checked and            *)
(* the clients are built; created tells whether their constructors         *)
(* returned.  exc holds the error the session shows.                       *)
(***************************************************************************)
ValidateEnvVars(s, file, cut) ==
    /\ pc[s] = "Startup"
    /\ env' = LoadDotenv(env, file)
    /\ LET err == IF ~file.readable
                  THEN "Error loading environment variables: " \o file.error
                  ELSE IF MissingVars(env') # <<>>
                  THEN "Missing environment variables: "
                           \o Join(", ", MissingVars(env'))
                  ELSE ""
       IN IF err # ""
          THEN /\ exc' = Local(exc, s, FailedStart(err, cut).exc)
               /\ pc' = Local(pc, s, FailedStart(err, cut).pc)
          ELSE /\ pc' = Local(pc, s, "Initializing")
               /\ UNCHANGED exc
    /\ UNCHANGED <<query, results, context, answer, trace, messages,
                   request, secureKeysLoaded, lastCall>>

(***************************************************************************)
(* Lines 27-42, and main up to st.chat_input when the clients were built:  *)
(* the first run of the script has no chat input and ends at line 122,     *)
(* unless a stop ends it at an st.* call before.                           *)
(***************************************************************************)
InitializeClients(s, created, cut) ==
    /\ pc[s] = "Initializing"
    /\ LET err == IF ~UrlOk(env)
                  THEN "Initialization Error: Invalid Supabase URL. Must start with https:// or http://"
                  ELSE IF ~created
                  THEN "Initialization Error: client"
                  ELSE ""
       IN IF err # ""
          THEN /\ exc' = Local(exc, s, FailedStart(err, cut).exc)
               /\ pc' = Local(pc, s, FailedStart(err, cut).pc)
          ELSE /\ pc' = Local(pc, s, IF cut = "before_input" THEN "Ended"
                                                             ELSE "Idle")
               /\ UNCHANGED exc
    /\ UNCHANGED <<query, results, context, answer, trace, messages, request>>
    /\ UNCHANGED kvars

InitStartup ==
    /\ pc = [s \in Sessions |-> "Startup"]
    /\ query = [s \in Sessions |-> ""]
    /\ results = [s \in Sessions |-> <<>>]
    /\ context = [s \in Sessions |-> ""]
    /\ answer = [s \in Sessions |-> ""]
    /\ exc = [s \in Sessions |-> ""]
    /\ trace = [s \in Sessions |-> <<>>]
    /\ messages = [s \in Sessions |-> <<>>]
    /\ request = [s \in Sessions |-> NoRequest]
    /\ env \in Envs
    /\ secureKeysLoaded = FALSE
    /\ lastCall = NoCall

(***************************************************************************)
(* SpecStartup: one session from the start of its script, in any           *)
(* environment, until one chat input is recorded.                          *)
(***************************************************************************)
NextStartup ==
    \/ \E file \in DotenvFiles, cut \in Cuts : ValidateEnvVars(1, file, cut)
    \/ \E created \in BOOLEAN, cut \in Cuts : InitializeClients(1, created, cut)
    \/ \E q \in Queries, file \in DotenvFiles, created \in BOOLEAN, cut \in Cuts :
           /\ messages[1] = <<>>
           /\ ChatInput(1, q, file, created, cut)
    \/ PressStop(1)
    \/ \E out \in ConcEmbeddingOutcomes : EmbeddingResponds(1, out)
    \/ \E out \in ConcRetrievalOutcomes : RetrievalResponds(1, out)
    \/ \E out \in ConcChatOutcomes : GenerationResponds(1, out)

SpecStartup == InitStartup /\ [][NextStartup]_vars

(***************************************************************************)
(* secure_keys: the module is imported (its load_dotenv() runs; when that  *)
(* raises, so does the import, and the module is not loaded), then its     *)
(* functions are called.                                                   *)
(***************************************************************************)
ImportSecureKeys(file) ==
    /\ ~secureKeysLoaded
    /\ env' = LoadDotenv(env, file)
    /\ secureKeysLoaded' = file.readable
    /\ lastCall' = [fn |-> "import",
                    result |-> IF file.readable THEN Return("secure_keys")
                               ELSE Raise("UnicodeDecodeError", file.error)]
    /\ UNCHANGED <<pc, query, results, context, answer, exc, trace, messages,
                   request>>

GetOpenaiApiKey ==
    /\ secureKeysLoaded
    /\ lastCall' = [fn |-> "get_openai_api_key",
                    result |-> GetOpenaiApiKeyResult(env)]
    /\ UNCHANGED <<pc, query, results, context, answer, exc, trace, messages,
                   request, env, secureKeysLoaded>>

ValidateApiKey(key) ==
    /\ secureKeysLoaded
    /\ lastCall' = [fn |-> "validate_api_key",
                    arg |-> key,
                    result |-> Return(ValidateApiKeyResult(key))]
    /\ UNCHANGED <<pc, query, results, context, answer, exc, trace, messages,
                   request, env, secureKeysLoaded>>

InitKeys ==
    /\ pc = [s \in Sessions |-> "Idle"]
    /\ query = [s \in Sessions |-> ""]
    /\ results = [s \in Sessions |-> <<>>]
    /\ context = [s \in Sessions |-> ""]
    /\ answer = [s \in Sessions |-> ""]
    /\ exc = [s \in Sessions |-> ""]
    /\ trace = [s \in Sessions |-> <<>>]
    /\ messages = [s \in Sessions |-> <<>>]
    /\ request = [s \in Sessions |-> NoRequest]
    /\ env \in Envs
    /\ secureKeysLoaded = FALSE
    /\ lastCall = NoCall

NextKeys ==
    \/ \E file \in DotenvFiles : ImportSecureKeys(file)
    \/ GetOpenaiApiKey
    \/ \E key \in KeyArgs : ValidateApiKey(key)

SpecKeys == InitKeys /\ [][NextKeys]_vars

(***************************************************************************)
(* Reading a query's trace.                                                *)
(***************************************************************************)
Events(s, kind, rpc) ==
    SelectSeq(trace[s], LAMBDA e : e.kind = kind /\ e.rpc = rpc)

Called(s, rpc) == Len(Events(s, "call", rpc))

Returned(s, rpc) == Len(Events(s, "return", rpc)) > 0

Outcome(s, rpc) == Events(s, "return", rpc)[1].out

LastMessage(s) == messages[s][Len(messages[s])]

\* process_query has returned: the run recorded the reply, or was ended at
\* line 131 before it could.
Answered(s) == pc[s] = "Done" \/ (pc[s] = "Ended" /\ trace[s] # <<>>)

(***************************************************************************)
(* C1: for every non-empty query and every outcome of the three RPCs,      *)
(* process_query returns a non-empty string and never raises: a query      *)
(* never ends with an exception, and a finished query's answer is not "".  *)
(* The code breaks this: a record without 'title' or 'content' raises      *)
(* KeyError out of process_query, and an empty completion is returned as   *)
(* the answer.                                                             *)
(***************************************************************************)
C1_FailSoft ==
    \A s \in Sessions :
        /\ pc[s] # "Raised"
        /\ Answered(s) => answer[s] # ""

(***************************************************************************)
(* C2: whenever search_docs yields an empty result sequence, process_query *)
(* returns exactly the fixed not-found message and the chat-completion     *)
(* call is issued zero times for that query.                               *)
(***************************************************************************)
C2_EmptyRetrievalShortCircuits ==
    \A s \in Sessions :
        (Returned(s, "retrieval") /\ results[s] = <<>>) =>
            /\ Answered(s)
            /\ answer[s] =
                 "I couldn't find any relevant information in the documentation."
            /\ Called(s, "chat") = 0

C2_Witness ==
    \E s \in Sessions :
        /\ Returned(s, "retrieval")
        /\ Outcome(s, "retrieval").ok
        /\ Outcome(s, "retrieval").data = <<>>
        /\ pc[s] = "Done"
        /\ answer[s] = NOT_FOUND

(***************************************************************************)
(* C3: if the embedding RPC fails, get_embedding returns a vector of       *)
(* exactly 1536 zeros instead of raising, and the query issues the         *)
(* retrieval RPC exactly once, with that vector as its query_embedding.    *)
(***************************************************************************)
C3_ZeroVectorOnEmbeddingFailure ==
    \A s \in Sessions :
        (Returned(s, "embedding") /\ ~Outcome(s, "embedding").ok) =>
            /\ pc[s] # "Embedding"
            /\ Called(s, "retrieval") = 1
            /\ LET v == Events(s, "call", "retrieval")[1].req.query_embedding
               IN /\ Dim(v) = 1536
                  /\ AllZero(v)

C3_Witness ==
    \E s \in Sessions :
        /\ Returned(s, "embedding")
        /\ ~Outcome(s, "embedding").ok
        /\ Returned(s, "retrieval")
        /\ Dim(Events(s, "call", "retrieval")[1].req.query_embedding) = 1536
        /\ pc[s] = "Generating"

(***************************************************************************)
(* C4: a failure of the retrieval RPC is turned into an empty sequence by  *)
(* search_docs and never raised, so the query ends as one that found       *)
(* nothing: the fixed not-found message (the reply that a completed run    *)
(* records) and no chat-completion call.                                   *)
(***************************************************************************)
C4_FailedSearchLooksEmpty ==
    \A s \in Sessions :
        (Returned(s, "retrieval") /\ ~Outcome(s, "retrieval").ok) =>
            /\ results[s] = <<>>
            /\ Answered(s)
            /\ exc[s] = ""
            /\ answer[s] =
                 "I couldn't find any relevant information in the documentation."
            /\ pc[s] = "Done" =>
                   LastMessage(s) = [role |-> "assistant", content |-> answer[s]]
            /\ Called(s, "chat") = 0

C4_Witness ==
    \E s \in Sessions :
        /\ Returned(s, "retrieval")
        /\ ~Outcome(s, "retrieval").ok
        /\ pc[s] = "Done"
        /\ answer[s] = NOT_FOUND

(***************************************************************************)
(* C5: if the chat-completion RPC fails with an error of message m,        *)
(* get_ai_response returns "Error: " followed by m instead of raising      *)
(* ("Error: rate limited" for m = "rate limited"), and process_query       *)
(* returns that string as its answer.                                      *)
(***************************************************************************)
C5_GenerationErrorString ==
    \A s \in Sessions :
        (Returned(s, "chat") /\ ~Outcome(s, "chat").ok) =>
            /\ Answered(s)
            /\ exc[s] = ""
            /\ answer[s] = "Error: " \o Outcome(s, "chat").msg
            /\ Outcome(s, "chat").msg = "rate limited" =>
                   answer[s] = "Error: rate limited"

C5_Witness ==
    \E s \in Sessions :
        /\ Returned(s, "chat")
        /\ ~Outcome(s, "chat").ok
        /\ Outcome(s, "chat").msg = "rate limited"
        /\ answer[s] = "Error: rate limited"

(***************************************************************************)
(* C6: when retrieval returned a non-empty sequence and the chat RPC       *)
(* succeeded, process_query returns exactly the text of the first          *)
(* completion candidate, nothing added or removed, whether or not the      *)
(* embedding had degraded to the zero vector.                              *)
(***************************************************************************)
C6_AnswerIsFirstCompletion ==
    \A s \in Sessions :
        (/\ Returned(s, "chat")
         /\ Outcome(s, "chat").ok
         /\ Len(Outcome(s, "chat").choices) >= 1) =>
            /\ Len(results[s]) >= 1
            /\ Answered(s)
            /\ answer[s] = Outcome(s, "chat").choices[1]
            /\ pc[s] = "Done" =>
                   LastMessage(s).content = Outcome(s, "chat").choices[1]

C6_Witness ==
    \E s \in Sessions :
        /\ Returned(s, "chat")
        /\ ~Outcome(s, "embedding").ok
        /\ Len(results[s]) = MaxDocs
        /\ Outcome(s, "chat").ok
        /\ Outcome(s, "chat").choices = <<"Use the REST API.", "See the docs.">>
        /\ answer[s] = "Use the REST API."

(***************************************************************************)
(* C7: the context built from the retrieved records d1..dn is exactly n    *)
(* blocks "Title: <title>\nContent: <content>", one per record, in the     *)
(* order of the sequence, consecutive blocks separated by exactly "\n\n":  *)
(* nothing is reordered, dropped or cut.                                   *)
(***************************************************************************)
RECURSIVE BlocksUpTo(_, _)
BlocksUpTo(docs, k) ==
    LET block == "Title: " \o docs[k].title \o "\nContent: " \o docs[k].content
    IN IF k = 1 THEN block ELSE BlocksUpTo(docs, k - 1) \o "\n\n" \o block

RECURSIVE BlockLengths(_, _)
BlockLengths(docs, k) ==
    IF k = 0 THEN 0
    ELSE BlockLengths(docs, k - 1)
           + Len("Title: ") + Len(docs[k].title)
           + Len("\nContent: ") + Len(docs[k].content)

C7_ContextPreservesOrder ==
    \A s \in Sessions :
        Called(s, "chat") = 1 =>
            LET n == Len(results[s])
            IN /\ n >= 1
               /\ context[s] = BlocksUpTo(results[s], n)
               /\ Len(context[s]) = BlockLengths(results[s], n) + 2 * (n - 1)
               /\ results[s] = <<DocA, DocB>> =>
                      context[s] = "Title: A\nContent: x\n\nTitle: B\nContent: y"
               /\ results[s] = <<DocB, DocA>> =>
                      context[s] = "Title: B\nContent: y\n\nTitle: A\nContent: x"

C7_Witness ==
    \E s \in Sessions :
        /\ Called(s, "chat") = 1
        /\ results[s] = <<DocB, DocA>>
        /\ context[s] = "Title: B\nContent: y\n\nTitle: A\nContent: x"

(***************************************************************************)
(* C8: within one query the external calls happen in the order embedding,  *)
(* retrieval, generation; each is issued at most once (a failed call is    *)
(* absorbed, never retried), and a call is issued only after the one       *)
(* before it has returned or failed.                                       *)
(***************************************************************************)
CallOrder ==
    << <<"call", "embedding">>, <<"return", "embedding">>,
       <<"call", "retrieval">>, <<"return", "retrieval">>,
       <<"call", "chat">>, <<"return", "chat">> >>

C8_SequentialCallsNoRetry ==
    \A s \in Sessions :
        /\ Len(trace[s]) <= Len(CallOrder)
        /\ \A i \in 1..Len(trace[s]) :
               <<trace[s][i].kind, trace[s][i].rpc>> = CallOrder[i]
        /\ \A rpc \in {"embedding", "retrieval", "chat"} : Called(s, rpc) <= 1

C8_Witness ==
    \E s \in Sessions :
        /\ Len(trace[s]) = Len(CallOrder)
        /\ ~Outcome(s, "embedding").ok
        /\ ~Outcome(s, "chat").ok
        /\ pc[s] = "Done"

(***************************************************************************)
(* C9: every started query reaches Done and yields exactly one answer      *)
(* string; the pipeline cannot stop in Embedding, Retrieving, Assembling   *)
(* or Generating.  As a statement a finite run refutes: a query for which  *)
(* process_query was called is either waiting for the outcome of an        *)
(* external call, or process_query has returned its answer (which a        *)
(* completed run records as the reply).  The code breaks this:             *)
(* process_query stops with a KeyError while it assembles the context of   *)
(* a record that lacks a key.                                              *)
(***************************************************************************)
C9_StartedQueryReachesDone ==
    \A s \in Sessions :
        trace[s] # <<>> =>
            \/ /\ pc[s] \in {"Embedding", "Retrieving", "Generating"}
               /\ trace[s][Len(trace[s])].kind = "call"
            \/ /\ Answered(s)
               /\ trace[s][Len(trace[s])].kind = "return"
               /\ pc[s] = "Done" =>
                      LastMessage(s) = [role |-> "assistant", content |-> answer[s]]

(***************************************************************************)
(* C10: with several queries in flight, each query's values and answer     *)
(* are determined by its own query text and the outcomes of its own calls: *)
(* its requests carry its own query and context, its results are its own   *)
(* retrieval outcome, its answer follows from its own outcomes, and no     *)
(* step of another query changes any of its values.                        *)
(***************************************************************************)
OwnAnswer(s) ==
    LET r == Outcome(s, "retrieval")
    IN IF ~r.ok \/ r.data = <<>> THEN NOT_FOUND
       ELSE LET c == Outcome(s, "chat")
            IN IF ~c.ok THEN "Error: " \o c.msg
               ELSE IF c.choices = <<>> THEN "Error: " \o INDEX_ERROR
               ELSE c.choices[1]

OwnValues(s) ==
    /\ Called(s, "embedding") = 1 =>
           Events(s, "call", "embedding")[1].req.input = query[s]
    /\ Returned(s, "retrieval") =>
           results[s] = (IF Outcome(s, "retrieval").ok
                         THEN Outcome(s, "retrieval").data ELSE <<>>)
    /\ Called(s, "chat") = 1 =>
           /\ context[s] = BlocksUpTo(results[s], Len(results[s]))
           /\ Events(s, "call", "chat")[1].req.messages[2].content =
                  "Context:\n" \o context[s] \o "\n\nQuestion: " \o query[s]
    /\ Answered(s) => answer[s] = OwnAnswer(s)
    /\ messages[s] # <<>> =>
           messages[s][1] = [role |-> "user", content |-> query[s]]

\* A step is one session's: it changes the values of at most one session.
Touched(s) ==
    \/ pc'[s] # pc[s]
    \/ query'[s] # query[s]
    \/ results'[s] # results[s]
    \/ context'[s] # context[s]
    \/ answer'[s] # answer[s]
    \/ exc'[s] # exc[s]
    \/ trace'[s] # trace[s]
    \/ messages'[s] # messages[s]
    \/ request'[s] # request[s]

OthersUntouched ==
    \A s, t \in Sessions : (Touched(s) /\ Touched(t)) => s = t

C10_QueriesAreIndependent ==
    /\ [](\A s \in Sessions : OwnValues(s))
    /\ [][OthersUntouched]_vars

C10_Witness ==
    /\ pc[1] = "Generating"
    /\ pc[2] = "Generating"
    /\ query[1] # query[2]
    /\ context[1] # context[2]
    /\ ~Outcome(1, "embedding").ok
    /\ Outcome(2, "embedding").ok

(***************************************************************************)
(* C11: get_openai_api_key returns the value of OPENAI_API_KEY when it is  *)
(* set to a non-empty string and raises ValueError when it is unset or     *)
(* empty; it never returns an empty or missing key.                        *)
(***************************************************************************)
C11_KeyReturnedOrValueError ==
    lastCall.fn = "get_openai_api_key" =>
        LET r == lastCall.result
            isSet == "OPENAI_API_KEY" \in DOMAIN env
        IN /\ (isSet /\ env["OPENAI_API_KEY"] # "") =>
                  (~r.raised /\ r.value = env["OPENAI_API_KEY"])
           /\ (~isSet \/ env["OPENAI_API_KEY"] = "") =>
                  (r.raised /\ r.exc = "ValueError")
           /\ ~r.raised => (isSet /\ r.value # "")

C11_Witness ==
    /\ lastCall.fn = "get_openai_api_key"
    /\ "OPENAI_API_KEY" \in DOMAIN env
    /\ env["OPENAI_API_KEY"] = ""
    /\ lastCall.result.raised
    /\ lastCall.result.exc = "ValueError"

(***************************************************************************)
(* C12: every retrieval RPC issued by process_query, for any query, in any *)
(* turn and whether or not the embedding degraded, carries match_count = 5 *)
(* and the filter {source: 'ultravox_docs'}.                               *)
(***************************************************************************)
C12_FixedRetrievalParameters ==
    \A s \in Sessions :
        \A i \in 1..Len(trace[s]) :
            (trace[s][i].kind = "call" /\ trace[s][i].rpc = "retrieval") =>
                /\ trace[s][i].req.match_count = 5
                /\ DOMAIN trace[s][i].req.filter = {"source"}
                /\ trace[s][i].req.filter.source = "ultravox_docs"

C12_Witness ==
    \E s \in Sessions :
        /\ Len(messages[s]) >= 3
        /\ messages[s][1].content # query[s]
        /\ Called(s, "retrieval") = 1
        /\ ~Outcome(s, "embedding").ok
        /\ Events(s, "call", "retrieval")[1].req.match_count = 5

(***************************************************************************)
(* C13: whenever the generation call is issued, its request has exactly    *)
(* two messages, system then user, and the user message is                 *)
(* "Context:\n{context}\n\nQuestion: {query}" with the context assembled   *)
(* from this query's own records and the query as the caller typed it.     *)
(***************************************************************************)
TypedQuery(s) ==
    LET asked == SelectSeq(messages[s], LAMBDA m : m.role = "user")
    IN asked[Len(asked)].content

C13_ChatRequestTemplate ==
    \A s \in Sessions :
        Called(s, "chat") >= 1 =>
            LET m == Events(s, "call", "chat")[1].req.messages
            IN /\ Len(m) = 2
               /\ m[1].role = "system"
               /\ m[2].role = "user"
               /\ m[2].content =
                      "Context:\n" \o BlocksUpTo(results[s], Len(results[s]))
                          \o "\n\nQuestion: " \o TypedQuery(s)
               /\ (results[s] = <<DocA, DocB>> /\ TypedQuery(s) = "What is a stage?") =>
                      m[2].content =
                          "Context:\nTitle: A\nContent: x\n\nTitle: B\nContent: y\n\nQuestion: What is a stage?"

C13_Witness ==
    \E s \in Sessions :
        /\ Called(s, "chat") = 1
        /\ results[s] = <<DocA, DocB>>
        /\ Events(s, "call", "chat")[1].req.messages[2].content =
               "Context:\nTitle: A\nContent: x\n\nTitle: B\nContent: y\n\nQuestion: What is a stage?"

(***************************************************************************)
(* C14: the session's message history is append-only, and after the chat   *)
(* inputs handled by main it consists of consecutive pairs (user message   *)
(* with the query, assistant message with that query's response): its      *)
(* length is even and the roles alternate starting with user, so every     *)
(* recorded user message has a recorded reply.  The code breaks this: main *)
(* records the user message before the reply exists, and when the run then *)
(* ends without line 132 (process_query raises, or Streamlit ends the run  *)
(* at an st.* call) no reply is recorded and the next input is recorded    *)
(* after it.                                                               *)
(***************************************************************************)
Paired(h) ==
    /\ Len(h) % 2 = 0
    /\ \A i \in 1..Len(h) :
           h[i].role = (IF i % 2 = 1 THEN "user" ELSE "assistant")

AppendOnly ==
    \A s \in Sessions :
        /\ Len(messages'[s]) >= Len(messages[s])
        /\ SubSeq(messages'[s], 1, Len(messages[s])) = messages[s]

C14_HistoryIsPairs ==
    /\ [](\A s \in Sessions :
            pc[s] \in {"Idle", "Done"} =>
                /\ Paired(messages[s])
                /\ pc[s] = "Done" =>
                       /\ messages[s][Len(messages[s]) - 1] =
                              [role |-> "user", content |-> query[s]]
                       /\ messages[s][Len(messages[s])] =
                              [role |-> "assistant", content |-> answer[s]])
    /\ [][AppendOnly]_vars

(***************************************************************************)
(* C15: no query is processed and no embedding, retrieval or generation    *)
(* RPC is issued unless startup validation passed: OPENAI_API_KEY,         *)
(* SUPABASE_URL and SUPABASE_SERVICE_KEY are all set and non-empty and     *)
(* SUPABASE_URL starts with http:// or https://; otherwise the script      *)
(* stops before main runs: the run ends at st.stop(), or at the st.error   *)
(* ahead of it when a stop was asked, with no message recorded, no query   *)
(* read and no call issued.                                                *)
(***************************************************************************)
IsSetNonEmpty(name) == name \in DOMAIN env /\ env[name] # ""

StartupValid ==
    /\ IsSetNonEmpty("OPENAI_API_KEY")
    /\ IsSetNonEmpty("SUPABASE_URL")
    /\ IsSetNonEmpty("SUPABASE_SERVICE_KEY")
    /\ \/ /\ Len(env["SUPABASE_URL"]) >= 7
          /\ SubSeq(env["SUPABASE_URL"], 1, 7) = "http://"
       \/ /\ Len(env["SUPABASE_URL"]) >= 8
          /\ SubSeq(env["SUPABASE_URL"], 1, 8) = "https://"

C15_NoQueryWithoutValidStartup ==
    \A s \in Sessions :
        /\ (\/ pc[s] \in {"Idle", "Done", "Raised"} \cup InFlight
            \/ trace[s] # <<>>
            \/ messages[s] # <<>>
            \/ query[s] # "") => StartupValid
        /\ pc[s] = "Stopped" =>
               (trace[s] = <<>> /\ messages[s] = <<>> /\ query[s] = "")
        /\ (pc[s] \notin {"Startup", "Initializing"} /\ ~StartupValid) =>
               /\ pc[s] \in {"Stopped", "Ended"}
               /\ trace[s] = <<>>
               /\ messages[s] = <<>>
               /\ query[s] = ""

C15_Witness ==
    \E s \in Sessions :
        /\ pc[s] = "Stopped"
        /\ IsSetNonEmpty("OPENAI_API_KEY")
        /\ IsSetNonEmpty("SUPABASE_SERVICE_KEY")
        /\ IsSetNonEmpty("SUPABASE_URL")
        /\ env["SUPABASE_URL"] = "db.supabase.co"
        /\ trace[s] = <<>>

(***************************************************************************)
(* C16: validate_api_key returns True exactly when its argument is a       *)
(* string that starts with "sk-" and is longer than 40 characters, and     *)
(* returns False without raising for every other argument: values that     *)
(* are not strings, and strings of 40 characters or fewer.                 *)
(***************************************************************************)
C16_ValidKeyFormat ==
    lastCall.fn = "validate_api_key" =>
        LET key == lastCall.arg
            r == lastCall.result
        IN /\ ~r.raised
           /\ r.value \in BOOLEAN
           /\ r.value <=> (/\ key.type = "str"
                           /\ Len(key.val) > 40
                           /\ SubSeq(key.val, 1, 3) = "sk-")
           /\ key = [type |-> "str", val |-> "sk-aaaaaaaaaaaaaaaaaaaaaaaaaaaaaaaaaaaaa"] => r.value = FALSE
           /\ key = [type |-> "str", val |-> "sk-aaaaaaaaaaaaaaaaaaaaaaaaaaaaaaaaaaaaaa"] => r.value = TRUE

C16_Witness ==
    /\ lastCall.fn = "validate_api_key"
    /\ lastCall.arg = [type |-> "str", val |-> "sk-aaaaaaaaaaaaaaaaaaaaaaaaaaaaaaaaaaaaa"]
    /\ Len(lastCall.arg.val) = 40
    /\ lastCall.result = [raised |-> FALSE, value |-> FALSE]

====
